---- MODULE Spec2Model ----
(***************************************************************************)
(* A model of config-finder (src/config-finder/__init__.py): the recursive *)
(* dictionary update, the search of a file name in a list of directories,  *)
(* and ConfigFinder.__call__, which merges the YAML or INI files found.    *)
(*                                                                         *)
(* Python values are tagged records: [s |-> n] a scalar, [m |-> f] a dict  *)
(* (f a function from keys to values), [none |-> TRUE] None, and           *)
(* [err |-> TRUE] stands for a call that raised instead of returning.      *)
(* Strings that the code takes apart (file names, directories, paths) are  *)
(* sequences of one-character strings.                                     *)
(***************************************************************************)
EXTENDS Integers, Sequences, FiniteSets, TLC

VARIABLES
    d, u, u2, r, r2, mdone,                 \* recursive_dict_update: arguments and results
    fs,                                     \* the filesystem: path -> what is there
    s_filename, s_dirs, s_check, s_paths, s_called,   \* config_search_paths: arguments, result
    self_paths,                             \* ConfigFinder.paths
    pc, filename, config_files, ext,        \* __call__: position and locals
    cfg, sections, defaults,                \* __call__: the accumulator dict / the MyParser
    ret, opened,                            \* __call__: returned value, files read by the call
    held                                    \* the caller keeps a dict of an earlier call that it changed

mergeVars  == <<d, u, u2, r, r2, mdone>>
searchVars == <<s_filename, s_dirs, s_check, s_paths, s_called>>
callVars   == <<self_paths, pc, filename, config_files, ext, cfg, sections, defaults, ret, opened>>
vars == <<mergeVars, fs, searchVars, callVars, held>>

-----------------------------------------------------------------------------
(* Bounds *)

MaxScalar == 2      \* scalars are 1..MaxScalar
MaxDirs == 2        \* a search path holds at most MaxDirs entries

-----------------------------------------------------------------------------
(* Python values *)

S(n) == [s |-> n]
M(f) == [m |-> f]
None == [none |-> TRUE]
Raised == [err |-> TRUE]

IsMapping(v) == DOMAIN v = {"m"}
IsScalar(v) == DOMAIN v = {"s"}
IsRaised(v) == DOMAIN v = {"err"}

EmptyDict == M(<<>>)

Maps(K, V) == UNION {[D -> V] : D \in SUBSET K}

Scalars == {S(n) : n \in 1..MaxScalar}
Keys == {"a", "b"}
NestedKeys == {"c", "d"}
\* dicts of scalars, and dicts whose values are scalars or dicts of scalars
FlatDicts == {M(f) : f \in Maps(NestedKeys, Scalars)}
Dicts == {M(f) : f \in Maps(Keys, Scalars \cup FlatDicts)}

-----------------------------------------------------------------------------
(* recursive_dict_update(d, u), lines 43-57.  u.items() raises when u is   *)
(* not a dict; with u empty the loop body never runs and d is returned as  *)
(* it is, whatever it is; otherwise d.get(k, {}) or d[k] = ... raises when *)
(* d is not a dict.  An exception in a nested call propagates.             *)

RECURSIVE recursive_dict_update(_, _)
recursive_dict_update(dd, uu) ==
    IF ~IsMapping(uu) THEN Raised
    ELSE IF DOMAIN uu.m = {} THEN dd
    ELSE IF ~IsMapping(dd) THEN Raised
    ELSE LET item(k) ==
                 IF IsMapping(uu.m[k])
                 THEN recursive_dict_update(
                          IF k \in DOMAIN dd.m THEN dd.m[k] ELSE EmptyDict, uu.m[k])
                 ELSE uu.m[k]
         IN  IF \E k \in DOMAIN uu.m : IsRaised(item(k))
             THEN Raised
             ELSE M([k \in DOMAIN dd.m \cup DOMAIN uu.m |->
                        IF k \in DOMAIN uu.m THEN item(k) ELSE dd.m[k]])

-----------------------------------------------------------------------------
(* Specification SpecMerge: one call recursive_dict_update(d, u) on every  *)
(* pair of dicts of the universe.                                          *)

IdleRest ==
    /\ fs = <<>>
    /\ s_filename = <<>> /\ s_dirs = <<>> /\ s_check = TRUE /\ s_paths = <<>>
    /\ s_called = FALSE
    /\ self_paths = <<>> /\ pc = "idle" /\ filename = <<>> /\ config_files = <<>>
    /\ ext = <<>> /\ cfg = EmptyDict /\ sections = <<>> /\ defaults = <<>>
    /\ ret = None /\ opened = <<>>
    /\ held = FALSE

InitMerge ==
    /\ d \in Dicts
    /\ u \in Dicts
    /\ u2 = EmptyDict
    /\ r = None /\ r2 = None
    /\ mdone = {}
    /\ IdleRest

\* r = recursive_dict_update(d, u)
Update ==
    /\ "update" \notin mdone
    /\ r' = recursive_dict_update(d, u)
    /\ mdone' = mdone \cup {"update"}
    /\ UNCHANGED <<d, u, u2, r2, fs, searchVars, callVars, held>>

NextMerge == Update

SpecMerge == InitMerge /\ [][NextMerge]_vars

-----------------------------------------------------------------------------
(* Specification SpecAssoc: two overlays applied one after the other, and  *)
(* the two overlays merged first and then applied.  An exception raised by *)
(* the inner call propagates: the outer call is never made.                *)

OneKeyDicts == {M(f) : f \in Maps({"a"}, Scalars \cup FlatDicts)}

InitAssoc ==
    /\ d \in Dicts
    /\ u \in OneKeyDicts
    /\ u2 \in OneKeyDicts
    /\ r = None /\ r2 = None
    /\ mdone = {}
    /\ IdleRest

\* r = recursive_dict_update(recursive_dict_update(d, u), u2)
UpdateTwice ==
    /\ "twice" \notin mdone
    /\ LET first == recursive_dict_update(d, u)
       IN  r' = IF IsRaised(first) THEN Raised ELSE recursive_dict_update(first, u2)
    /\ mdone' = mdone \cup {"twice"}
    /\ UNCHANGED <<d, u, u2, r2, fs, searchVars, callVars, held>>

\* r2 = recursive_dict_update(d, recursive_dict_update(u, u2))
UpdateCombined ==
    /\ "combined" \notin mdone
    /\ LET both == recursive_dict_update(u, u2)
       IN  r2' = IF IsRaised(both) THEN Raised ELSE recursive_dict_update(d, both)
    /\ mdone' = mdone \cup {"combined"}
    /\ UNCHANGED <<d, u, u2, r, fs, searchVars, callVars, held>>

NextAssoc == UpdateTwice \/ UpdateCombined

SpecAssoc == InitAssoc /\ [][NextAssoc]_vars

\* C5 (as claimed): for all dicts, also ones where a key holds a dict in one
\* and a scalar in another, updating with u and then with u2 gives what
\* updating with the combination of u and u2 gives.
C5_Associative == mdone = {"twice", "combined"} => r = r2

-----------------------------------------------------------------------------
(* Strings, os.path.join and os.path.splitext (posixpath)                  *)

Tmp == <<"/", "t", "m", "p">>
TmpSlash == <<"/", "t", "m", "p", "/">>
Dot == <<".">>
NoneDir == <<"None">>          \* the value None given as a search directory

ConfCfg  == <<"c", "o", "n", "f", ".", "c", "f", "g">>
ConfIni  == <<"c", "o", "n", "f", ".", "i", "n", "i">>
ConfYaml == <<"c", "o", "n", "f", ".", "y", "a", "m", "l">>
ConfYml  == <<"c", "o", "n", "f", ".", "y", "m", "l">>
ConfYAML == <<"c", "o", "n", "f", ".", "Y", "A", "M", "L">>
DotYaml  == <<".", "y", "a", "m", "l">>
RootConfCfg == <<"/", "c", "o", "n", "f", ".", "c", "f", "g">>

\* posixpath.join(a, p): an absolute p replaces a; a separator is added
\* unless a is empty or already ends with one
join(a, p) ==
    IF p # <<>> /\ p[1] = "/" THEN p
    ELSE IF a = <<>> \/ a[Len(a)] = "/" THEN a \o p
    ELSE a \o <<"/">> \o p

\* str.rfind, 1-based; 0 when c does not occur
rfind(p, c) ==
    LET at == {i \in 1..Len(p) : p[i] = c}
    IN  IF at = {} THEN 0 ELSE CHOOSE i \in at : \A j \in at : j <= i

\* os.path.splitext(p)[1]: from the last dot of the last component, unless
\* that component has nothing but dots before it
splitext(p) ==
    LET sepIndex == rfind(p, "/")
        dotIndex == rfind(p, ".")
    IN  IF dotIndex > sepIndex
           /\ \E i \in (sepIndex + 1)..(dotIndex - 1) : p[i] # "."
        THEN SubSeq(p, dotIndex, Len(p))
        ELSE <<>>

-----------------------------------------------------------------------------
(* The filesystem: a function from the paths that exist to what is there,  *)
(* [kind |-> "dir"] or [kind |-> "file", content |-> c].                   *)

Dir == [kind |-> "dir"]
File(c) == [kind |-> "file", content |-> c]

\* os.path.exists in place of os.path.isfile: a directory passes
isfile_exists(fsys, x) == x \in DOMAIN fsys

\* os.path.isfile
isfile(fsys, x) == x \in DOMAIN fsys /\ fsys[x].kind = "file"

\* open(x) succeeds on a regular file
can_open(fsys, x) == x \in DOMAIN fsys /\ fsys[x].kind = "file"

Put(fsys, p, e) == [q \in DOMAIN fsys \cup {p} |-> IF q = p THEN e ELSE fsys[q]]
Del(fsys, p) == [q \in DOMAIN fsys \ {p} |-> fsys[q]]

-----------------------------------------------------------------------------
(* config_search_paths(filename, *search_dirs, check_exists), lines 60-70  *)

RECURSIVE joined(_, _)
joined(fname, dirs) ==
    IF dirs = <<>> THEN <<>>
    ELSE IF Head(dirs) # NoneDir
         THEN <<join(Head(dirs), fname)>> \o joined(fname, Tail(dirs))
         ELSE joined(fname, Tail(dirs))

\* the same with check_exists ignored: every joined path is returned
config_search_paths_unchecked(fname, dirs, check_exists, fsys) == joined(fname, dirs)

config_search_paths(fname, dirs, check_exists, fsys) ==
    LET paths == joined(fname, dirs)
    IN  IF check_exists THEN SelectSeq(paths, LAMBDA x : isfile(fsys, x)) ELSE paths

-----------------------------------------------------------------------------
(* Specification SpecSearch: files and directories come and go, and        *)
(* config_search_paths is called with any file name, search path and flag. *)

SearchDirs == {Tmp, TmpSlash, Dot, NoneDir}
SearchNames == {ConfCfg, RootConfCfg}
SearchPaths == UNION {[1..n -> SearchDirs] : n \in 0..MaxDirs}
SearchFsPaths == {join(a, f) : a \in SearchDirs \ {NoneDir}, f \in SearchNames}

InitSearch ==
    /\ d = EmptyDict /\ u = EmptyDict /\ u2 = EmptyDict
    /\ r = None /\ r2 = None /\ mdone = {}
    /\ IdleRest

CreateFile ==
    \E p \in SearchFsPaths :
        /\ ~s_called
        /\ p \notin DOMAIN fs
        /\ fs' = Put(fs, p, File(None))
        /\ UNCHANGED <<mergeVars, searchVars, callVars, held>>

CreateDir ==
    \E p \in SearchFsPaths :
        /\ ~s_called
        /\ p \notin DOMAIN fs
        /\ fs' = Put(fs, p, Dir)
        /\ UNCHANGED <<mergeVars, searchVars, callVars, held>>

Remove ==
    \E p \in DOMAIN fs :
        /\ pc = "idle" /\ ~s_called
        /\ fs' = Del(fs, p)
        /\ UNCHANGED <<mergeVars, searchVars, callVars, held>>

Search ==
    \E f \in SearchNames, dirs \in SearchPaths, chk \in BOOLEAN :
        /\ ~s_called
        /\ s_filename' = f
        /\ s_dirs' = dirs
        /\ s_check' = chk
        /\ s_paths' = config_search_paths(f, dirs, chk, fs)
        /\ s_called' = TRUE
        /\ UNCHANGED <<mergeVars, fs, callVars, held>>

\* the caller is done with the list it was given
Release ==
    /\ s_called
    /\ s_filename' = <<>> /\ s_dirs' = <<>> /\ s_check' = TRUE /\ s_paths' = <<>>
    /\ s_called' = FALSE
    /\ UNCHANGED <<mergeVars, fs, callVars, held>>

NextSearch == CreateFile \/ CreateDir \/ Remove \/ Search \/ Release

SpecSearch == InitSearch /\ [][NextSearch]_vars

\* C4: a search returns exactly the joined paths of the directories that are
\* not None, in search-path order; with check_exists only those that are
\* regular files now, without it all of them whatever the filesystem holds;
\* and the search leaves the filesystem as it was.
ExpectedSearch(fname, dirs, chk, fsys) ==
    LET given == SelectSeq(dirs, LAMBDA x : x # NoneDir)
        cands == [i \in 1..Len(given) |-> join(given[i], fname)]
        keep == {i \in 1..Len(cands) :
                    cands[i] \in DOMAIN fsys /\ fsys[cands[i]].kind = "file"}
        Pos(i) == Cardinality({j \in keep : j <= i})
    IN  IF chk
        THEN [n \in 1..Cardinality(keep) |-> cands[CHOOSE i \in keep : Pos(i) = n]]
        ELSE cands

C4_SearchResult ==
    [][Search =>
          /\ s_paths' = ExpectedSearch(s_filename', s_dirs', s_check', fs)
          /\ (~s_check' => Len(s_paths') =
                 Cardinality({i \in 1..Len(s_dirs') : s_dirs'[i] # NoneDir}))
          /\ fs' = fs]_vars

\* a checked search over two directories: one candidate is a directory and
\* is left out, the other is a regular file and is returned
C4_Witness ==
    /\ s_called /\ s_check
    /\ Len(s_dirs) = 2 /\ Len(s_paths) = 1
    /\ \E i \in 1..2 : /\ s_dirs[i] # NoneDir
                       /\ join(s_dirs[i], s_filename) \in DOMAIN fs
                       /\ fs[join(s_dirs[i], s_filename)].kind = "dir"
    /\ isfile(fs, s_paths[1])

-----------------------------------------------------------------------------
(* File contents.  The YAML and INI parsers are libraries: a file is       *)
(* modelled by the document it parses to, [yaml |-> doc] with doc a dict   *)
(* or None (an empty file), [ini |-> doc] with doc a function from section *)
(* names to functions from option names to strings, or [bad |-> TRUE] for  *)
(* a text the parser rejects.                                              *)

YamlText(doc) == [yaml |-> doc]
IniText(doc) == [ini |-> doc]
Malformed == [bad |-> TRUE]

\* yaml.load(fd_): the document, or a raised YAMLError
yaml_load(c) == IF DOMAIN c = {"yaml"} THEN c.yaml ELSE Raised

Override(f, g) == [k \in DOMAIN f \cup DOMAIN g |-> IF k \in DOMAIN g THEN g[k] ELSE f[k]]

-----------------------------------------------------------------------------
(* ConfigFinder.__call__, lines 99-115                                     *)

ExtCfg  == <<".", "c", "f", "g">>
ExtIni  == <<".", "i", "n", "i">>
ExtYaml == <<".", "y", "a", "m", "l">>
ExtYml  == <<".", "y", "m", "l">>

\* the same tests with the extension compared whatever its case
FormatOf_anycase(e) ==
    IF e \in {ExtCfg, ExtIni} THEN "ini"
    ELSE IF e \in {ExtYaml, ExtYml, <<".", "Y", "A", "M", "L">>} THEN "yaml"
    ELSE "none"

\* the two membership tests on ext, lines 104 and 110
FormatOf(e) ==
    IF e \in {ExtCfg, ExtIni} THEN "ini"
    ELSE IF e \in {ExtYaml, ExtYml} THEN "yaml"
    ELSE "none"

\* a dict kept from one call to the next in place of a new one
NewDict_kept == cfg

\* cfg = {}, line 111
NewDict == EmptyDict

\* cfg = MyParser(), line 105: no sections, no defaults
NewParser == [sections |-> <<>>, defaults |-> <<>>]

\* the loop of lines 112-114: open each file, load it, update cfg with it;
\* the first exception ends the call
RECURSIVE yaml_loop(_, _, _, _)
yaml_loop(acc, files, fsys, seen) ==
    IF files = <<>> THEN [cfg |-> acc, opened |-> seen, raised |-> FALSE]
    ELSE IF ~can_open(fsys, Head(files))
         THEN [cfg |-> acc, opened |-> seen, raised |-> TRUE]
    ELSE LET doc == yaml_load(fsys[Head(files)].content)
             upd == IF IsRaised(doc) THEN Raised ELSE recursive_dict_update(acc, doc)
         IN  IF IsRaised(upd)
             THEN [cfg |-> acc, opened |-> Append(seen, Head(files)), raised |-> TRUE]
             ELSE yaml_loop(upd, Tail(files), fsys, Append(seen, Head(files)))

\* ConfigParser.read(config_file) on the parser ps: the sections of the file
\* are added to those of the parser, options set in place; the section
\* DEFAULT goes to the defaults; a new section starts with its __name__
ini_read(ps, doc) ==
    [sections |->
        [sn \in DOMAIN ps.sections \cup (DOMAIN doc \ {"DEFAULT"}) |->
            IF sn \in DOMAIN doc
            THEN Override(IF sn \in DOMAIN ps.sections THEN ps.sections[sn]
                          ELSE "__name__" :> sn, doc[sn])
            ELSE ps.sections[sn]],
     defaults |->
        IF "DEFAULT" \in DOMAIN doc THEN Override(ps.defaults, doc["DEFAULT"])
        ELSE ps.defaults]

\* the loop of lines 106-107; read() skips a file it cannot open and raises
\* on a text that is not INI
RECURSIVE ini_loop(_, _, _, _)
ini_loop(ps, files, fsys, seen) ==
    IF files = <<>> THEN [parser |-> ps, opened |-> seen, raised |-> FALSE]
    ELSE IF ~can_open(fsys, Head(files)) THEN ini_loop(ps, Tail(files), fsys, seen)
    ELSE LET c == fsys[Head(files)].content
         IN  IF DOMAIN c # {"ini"}
             THEN [parser |-> ps, opened |-> Append(seen, Head(files)), raised |-> TRUE]
             ELSE ini_loop(ini_read(ps, c.ini), Tail(files), fsys, Append(seen, Head(files)))

\* MyParser.as_dict, lines 79-85, with the defaults laid over the section
as_dict_defaults_win(ps) ==
    M([sn \in DOMAIN ps.sections |->
          LET all == Override(ps.sections[sn], ps.defaults)
          IN  M([k \in DOMAIN all \ {"__name__"} |-> S(all[k])])])

\* MyParser.as_dict, lines 79-85
as_dict(ps) ==
    M([sn \in DOMAIN ps.sections |->
          LET all == Override(ps.defaults, ps.sections[sn])
          IN  M([k \in DOMAIN all \ {"__name__"} |-> S(all[k])])])

\* config_finder(f)
Load(f) ==
        LET files == config_search_paths(f, self_paths, TRUE, fs)
            e == splitext(f)
            fmt == FormatOf(e)
            ini == ini_loop(NewParser, files, fs, <<>>)
            yml == yaml_loop(NewDict, files, fs, <<>>)
        IN  /\ filename' = f
            /\ config_files' = files
            /\ ext' = e
            /\ IF fmt = "ini"
               THEN /\ sections' = ini.parser.sections
                    /\ defaults' = ini.parser.defaults
                    /\ cfg' = EmptyDict
                    /\ opened' = ini.opened
                    /\ pc' = IF ini.raised THEN "raised" ELSE "returned"
                    /\ ret' = IF ini.raised THEN Raised ELSE as_dict(ini.parser)
               ELSE IF fmt = "yaml"
               THEN /\ sections' = <<>> /\ defaults' = <<>>
                    /\ cfg' = IF yml.raised THEN EmptyDict ELSE yml.cfg
                    /\ opened' = yml.opened
                    /\ pc' = IF yml.raised THEN "raised" ELSE "returned"
                    /\ ret' = IF yml.raised THEN Raised ELSE yml.cfg
               ELSE /\ sections' = <<>> /\ defaults' = <<>>
                    /\ cfg' = EmptyDict
                    /\ opened' = <<>>
                    /\ pc' = "returned"
                    /\ ret' = None
            /\ UNCHANGED <<mergeVars, fs, searchVars, self_paths, held>>

\* the caller changes the dict it was given: ret["zz"] = {}.  A YAML call
\* returned cfg itself; as_dict built new dicts.
MutateRet ==
    /\ pc = "returned"
    /\ IsMapping(ret)
    /\ "zz" \notin DOMAIN ret.m
    /\ ret' = M(Override(ret.m, "zz" :> EmptyDict))
    /\ cfg' = IF FormatOf(ext) = "yaml" THEN ret' ELSE cfg
    /\ held' = TRUE
    /\ UNCHANGED <<mergeVars, fs, searchVars, self_paths, pc, filename, config_files,
                   ext, sections, defaults, opened>>

\* the caller drops what the call gave it
Forget ==
    /\ pc \in {"returned", "raised"}
    /\ pc' = "idle"
    /\ filename' = <<>> /\ config_files' = <<>> /\ ext' = <<>>
    /\ cfg' = EmptyDict /\ sections' = <<>> /\ defaults' = <<>>
    /\ ret' = None /\ opened' = <<>>
    /\ held' = FALSE
    /\ UNCHANGED <<mergeVars, fs, searchVars, self_paths>>

-----------------------------------------------------------------------------
(* Specification SpecYaml: a ConfigFinder over up to MaxDirs directories;  *)
(* YAML files are written and removed between calls.                       *)

LoaderDirs == {Tmp, Dot, NoneDir}
LoaderPaths == UNION {[1..n -> LoaderDirs] : n \in 0..MaxDirs}

\* one top-level key holding a scalar or a dict of one key; None is what
\* yaml.load gives for an empty file
LoaderDicts == {M(f) : f \in Maps({"a"}, Scalars \cup {M(g) : g \in Maps({"c"}, Scalars)})}
YamlDocs == LoaderDicts \cup {None}
YamlSlots ==
    ({join(Tmp, ConfYaml), join(Dot, ConfYaml)}
        \X ({Dir, File(Malformed)} \cup {File(YamlText(doc)) : doc \in YamlDocs}))
    \cup {<<join(Tmp, ConfYAML), File(YamlText(M("a" :> S(1))))>>}

InitLoader ==
    /\ d = EmptyDict /\ u = EmptyDict /\ u2 = EmptyDict
    /\ r = None /\ r2 = None /\ mdone = {}
    /\ fs = <<>>
    /\ s_filename = <<>> /\ s_dirs = <<>> /\ s_check = TRUE /\ s_paths = <<>>
    /\ s_called = FALSE
    /\ self_paths \in LoaderPaths
    /\ pc = "idle" /\ filename = <<>> /\ config_files = <<>>
    /\ ext = <<>> /\ cfg = EmptyDict /\ sections = <<>> /\ defaults = <<>>
    /\ ret = None /\ opened = <<>>
    /\ held = FALSE

WriteYaml ==
    \E slot \in YamlSlots :
        /\ pc = "idle"
        /\ slot[1] \notin DOMAIN fs
        /\ fs' = Put(fs, slot[1], slot[2])
        /\ UNCHANGED <<mergeVars, searchVars, callVars, held>>

Call == \E f \in {ConfYaml, ConfYml, ConfYAML, DotYaml, ConfIni} : Load(f)

NextYaml == WriteYaml \/ Remove \/ Call \/ MutateRet \/ Forget

SpecYaml == InitLoader /\ [][NextYaml]_vars

-----------------------------------------------------------------------------
(* Specification SpecIni: the same with INI files.                         *)

IniSections == {"DEFAULT", "a", "b"}
IniOptions == {"d"}
IniValues == {"4", "5"}
\* section a, when a file has it, holds the one option (as in test_ini)
IniDocs ==
    {doc \in Maps(IniSections, Maps(IniOptions, IniValues)) :
        "a" \in DOMAIN doc => doc["a"] = ("d" :> "4")}
IniSlots ==
    {join(Tmp, ConfIni), join(Dot, ConfIni)}
        \X ({File(Malformed)} \cup {File(IniText(doc)) : doc \in IniDocs})

WriteIni ==
    \E slot \in IniSlots :
        /\ pc = "idle"
        /\ slot[1] \notin DOMAIN fs
        /\ fs' = Put(fs, slot[1], slot[2])
        /\ UNCHANGED <<mergeVars, searchVars, callVars, held>>

CallIni == \E f \in {ConfIni, ConfCfg} : Load(f)

NextIni == WriteIni \/ Remove \/ CallIni \/ Forget

SpecIni == InitLoader /\ [][NextIni]_vars

-----------------------------------------------------------------------------
(* Claims on recursive_dict_update (SpecMerge)                             *)

RECURSIVE MergedKeywise(_, _, _)
MergedKeywise(b, o, res) ==
    /\ IsMapping(res)
    /\ DOMAIN res.m = DOMAIN b.m \cup DOMAIN o.m
    /\ \A k \in DOMAIN res.m :
          /\ k \notin DOMAIN o.m => res.m[k] = b.m[k]
          /\ (k \in DOMAIN o.m /\ IsScalar(o.m[k])) => res.m[k] = o.m[k]
          /\ (k \in DOMAIN o.m /\ k \in DOMAIN b.m
                /\ IsMapping(o.m[k]) /\ IsMapping(b.m[k]))
             => MergedKeywise(b.m[k], o.m[k], res.m[k])

\* C1: for all dicts d and u the update returns a dict r that has the keys
\* of d and of u, keeps the value of a key only d has, takes u's value where
\* that is a scalar, and holds the same merge, level by level, where both
\* hold a dict; and updating with the empty dict returns d.
C1_MergeKeywise ==
    "update" \in mdone =>
        /\ MergedKeywise(d, u, r)
        /\ (u = EmptyDict => r = d)

\* C10: where u holds a dict at a key that d lacks or holds a scalar at, the
\* update does not raise and the result holds at that key what updating the
\* empty dict with u's dict gives.
C10_DictOverNonDict ==
    "update" \in mdone =>
        /\ ~IsRaised(r)
        /\ \A k \in DOMAIN u.m :
              (IsMapping(u.m[k]) /\ (k \notin DOMAIN d.m \/ ~IsMapping(d.m[k])))
              => r.m[k] = recursive_dict_update(EmptyDict, u.m[k])

-----------------------------------------------------------------------------
(* Claims on ConfigFinder.__call__ with YAML files (SpecYaml)              *)

Recognised == {ExtCfg, ExtIni, ExtYaml, ExtYml}

\* the caller has changed the dict that ret is
Mutated == IsMapping(ret) /\ "zz" \in DOMAIN ret.m

\* the files of the call, in search-path order, and what they hold
Candidates == ExpectedSearch(filename, self_paths, TRUE, fs)
Layers == [i \in 1..Len(Candidates) |-> fs[Candidates[i]].content]
AllParse(tag) == \A i \in 1..Len(Layers) : DOMAIN Layers[i] = {tag}

YamlCall == pc # "idle" /\ splitext(filename) \in {ExtYaml, ExtYml}
IniCall == pc # "idle" /\ splitext(filename) \in {ExtCfg, ExtIni}

RECURSIVE FoldUpdate(_, _)
FoldUpdate(acc, docs) ==
    IF docs = <<>> \/ IsRaised(acc) THEN acc
    ELSE FoldUpdate(recursive_dict_update(acc, Head(docs)), Tail(docs))

KeyPaths == {<<"a">>, <<"a", "c">>}

RECURSIVE HasPath(_, _)
HasPath(v, p) ==
    IF p = <<>> THEN TRUE
    ELSE IsMapping(v) /\ Head(p) \in DOMAIN v.m /\ HasPath(v.m[Head(p)], Tail(p))

RECURSIVE At(_, _)
At(v, p) == IF p = <<>> THEN v ELSE At(v.m[Head(p)], Tail(p))

Latest(I) == CHOOSE i \in I : \A j \in I : j <= i

\* C2: a YAML load returns the left fold of the update over the documents of
\* the candidate files, from the empty dict; so at every key path that holds
\* a scalar in some layer the result holds the value of the latest layer that
\* defines the path, and a path defined in any layer is in the result.
C2_YamlLayers ==
    (YamlCall /\ AllParse("yaml") /\ ~Mutated) =>
        LET docs == [i \in 1..Len(Layers) |-> Layers[i].yaml]
            defines(p) == {i \in 1..Len(docs) : HasPath(docs[i], p)}
        IN  /\ ret = FoldUpdate(EmptyDict, docs)
            /\ \A p \in KeyPaths :
                  (\E i \in defines(p) : IsScalar(At(docs[i], p)))
                  => /\ HasPath(ret, p)
                     /\ At(ret, p) = At(docs[Latest(defines(p))], p)
            /\ \A p \in KeyPaths : defines(p) # {} => HasPath(ret, p)

\* C6: a YAML load with an empty candidate file returns, and returns what
\* the load gives with the empty files left out.
C6_EmptyFileNoOp ==
    (YamlCall /\ AllParse("yaml") /\ ~Mutated
        /\ \E i \in 1..Len(Layers) : Layers[i].yaml = None)
    => /\ pc = "returned"
       /\ ret = yaml_loop(EmptyDict,
                          SelectSeq(Candidates, LAMBDA x : fs[x].content.yaml # None),
                          fs, <<>>).cfg

\* C7: a load of a file name whose extension is none of .cfg, .ini, .yaml,
\* .yml returns None and reads no file, whatever the search path and the
\* filesystem hold.
C7_UnrecognisedExtension ==
    (pc # "idle" /\ splitext(filename) \notin Recognised)
    => pc = "returned" /\ ret = None /\ opened = <<>>

\* a file of that name is in a search directory, and the load returned None
C7_Witness ==
    /\ pc = "returned" /\ filename = ConfYAML
    /\ Len(Candidates) > 0
    /\ ret = None

\* C8: a load of a file name with a recognised extension that is a regular
\* file in no search directory returns an empty configuration.
C8_NothingFound ==
    (pc # "idle" /\ splitext(filename) \in Recognised /\ Len(Candidates) = 0)
    => pc = "returned" /\ (~Mutated => ret = EmptyDict)

\* a search path with a None entry and a directory that holds a directory of
\* that name: nothing to load, and the empty dict came back
C8_Witness ==
    /\ pc = "returned" /\ filename = ConfYaml /\ ret = EmptyDict
    /\ self_paths = <<NoneDir, Tmp>>
    /\ join(Tmp, ConfYaml) \in DOMAIN fs

\* what a load gives, from the file name, the search path and the filesystem
Outcome(f, paths, fsys) ==
    LET files == ExpectedSearch(f, paths, TRUE, fsys)
        e == splitext(f)
        ini == ini_loop([sections |-> <<>>, defaults |-> <<>>], files, fsys, <<>>)
        yml == yaml_loop(EmptyDict, files, fsys, <<>>)
    IN  IF e \in {ExtCfg, ExtIni}
        THEN IF ini.raised THEN Raised ELSE as_dict(ini.parser)
        ELSE IF e \in {ExtYaml, ExtYml}
        THEN IF yml.raised THEN Raised ELSE yml.cfg
        ELSE None

\* C9: no load changes the search path of the finder, and what a load gives
\* is decided by the file name, the search path and the filesystem alone,
\* whatever was loaded before and whatever the caller did to earlier results.
C9_Stateless ==
    [][/\ self_paths' = self_paths
       /\ (\E f \in {ConfYaml, ConfYml, ConfYAML, DotYaml, ConfIni} : Load(f))
          => ret' = Outcome(filename', self_paths, fs)]_vars

\* the caller holds a dict of an earlier load that it changed, and a later
\* load of two files has returned a dict without that change
C9_Witness ==
    /\ held /\ pc = "returned" /\ ~Mutated
    /\ Len(opened) = 2
    /\ IsMapping(ret) /\ ret # EmptyDict

-----------------------------------------------------------------------------
(* Claims on ConfigFinder.__call__ with INI files (SpecIni)                *)

\* C3: an INI load returns the named sections of all candidate files; an
\* option of a section has the value of the last file that sets it in that
\* section, else of the last file that sets it in DEFAULT, else it is not
\* there; DEFAULT is no section of the result and no section holds __name__.
C3_IniLayers ==
    (IniCall /\ AllParse("ini")) =>
        LET docs == [i \in 1..Len(Layers) |-> Layers[i].ini]
            sets(sn, k) == {i \in 1..Len(docs) : sn \in DOMAIN docs[i] /\ k \in DOMAIN docs[i][sn]}
        IN  /\ pc = "returned"
            /\ IsMapping(ret)
            /\ DOMAIN ret.m = UNION {DOMAIN docs[i] \ {"DEFAULT"} : i \in 1..Len(docs)}
            /\ \A sn \in DOMAIN ret.m :
                  /\ IsMapping(ret.m[sn])
                  /\ DOMAIN ret.m[sn].m \subseteq IniOptions
                  /\ \A k \in IniOptions :
                        IF sets(sn, k) # {}
                        THEN /\ k \in DOMAIN ret.m[sn].m
                             /\ ret.m[sn].m[k] = S(docs[Latest(sets(sn, k))][sn][k])
                        ELSE IF sets("DEFAULT", k) # {}
                        THEN /\ k \in DOMAIN ret.m[sn].m
                             /\ ret.m[sn].m[k] =
                                    S(docs[Latest(sets("DEFAULT", k))]["DEFAULT"][k])
                        ELSE k \notin DOMAIN ret.m[sn].m

\* two files: the first sets d in section b, the second sets another value
\* of d in DEFAULT only, and the result has the first file's value
C3_Witness ==
    /\ IniCall /\ pc = "returned" /\ Len(Candidates) = 2
    /\ LET one == Layers[1].ini
           two == Layers[2].ini
       IN  /\ "b" \in DOMAIN one /\ "d" \in DOMAIN one["b"]
           /\ "DEFAULT" \in DOMAIN two /\ "d" \in DOMAIN two["DEFAULT"]
           /\ "b" \notin DOMAIN two
           /\ two["DEFAULT"]["d"] # one["b"]["d"]
           /\ ret.m["b"].m["d"] = S(one["b"]["d"])

====
